---- MODULE Spec2Model ----
(***************************************************************************)
(* A model of package ctxio: the rendezvous Pipe (pipe.go) and the Close   *)
(* methods of the reader/writer adapters (reader.go, writer.go).           *)
(*                                                                         *)
(* Every goroutine is a thread with a program counter.  One step is one    *)
(* channel operation, one select, or one critical section of a mutex;      *)
(* steps that touch no shared state are merged into the step before them.  *)
(* A rendezvous on an unbuffered channel is a joint step of the sender and *)
(* the receiver.                                                           *)
(***************************************************************************)
EXTENDS Integers, Sequences, FiniteSets, TLC

\* ---------------------------------------------------------------- bounds
MaxLen == 2        \* longest buffer passed to ReadContext / WriteContext
MaxCalls == 3      \* ReadContext and WriteContext calls made in a run of Spec
MaxWatchCalls == 3 \* calls made on the deadline-racing adapter in a run
StreamLen == 3     \* bytes the handle behind a goReader produces before EOF
MaxCopyReads == 4  \* reads of the source in a run of copyBuffer
writeBufferSize == 1   \* the length of a goWriter's scratch buffers, 32 * 1024 in the source

\* ---------------------------------------------------------------- values
Nil == "nil"
EOF == "EOF"
ErrClosedPipe == "ErrClosedPipe"
Custom == "E1"                          \* a caller-chosen error value
CloseArgs == {Nil, Custom}              \* arguments of CloseWithError
ClosedErrs == {EOF, ErrClosedPipe, Custom}   \* what a done pipe can return
Live == "live"                          \* a signal that has not fired
CtxErrs == {"Canceled"}                 \* ctx.Err() of a fired signal
Signals == {Live} \cup CtxErrs
NoRet == [t |-> "none", n |-> 0, err |-> "none", data |-> << >>,
          len |-> 0, taken |-> 0, prev |-> "none"]

PipeReaders == {"r1"}
PipeWriters == {"w1", "w2"}
SeqWriters == {"w1"}                    \* the writer of the runs of Spec
PipeClosers == {"c1"}                   \* closers running beside reads and writes
Closers == {"c1", "c2"}                 \* goroutines that call Close
Callers == PipeReaders \cup PipeWriters
Threads == Callers \cup Closers
Adapters == {"watchReader", "watchWriter", "goReader", "goWriter"}
WatchKinds == {"watchReader", "watchWriter"}
AdCallers == {"a1", "a2"}               \* goroutines calling an adapter
WatchCalls == 1..MaxWatchCalls          \* the calls of a run, by number
Timeout == "Timeout"                    \* the handle's deadline error
ErrClosed == "ErrClosed"                \* fs.ErrClosed
NoResp == [n |-> 0, err |-> "none"]      \* an empty response channel
BufIds == {1, 2, 3}                     \* identities of the byte arrays in use
ErrShortBuffer == "ErrShortBuffer"      \* io.ErrShortBuffer
ErrUnexpectedEOF == "ErrUnexpectedEOF"  \* io.ErrUnexpectedEOF
ErrShortWrite == "ErrShortWrite"        \* io.ErrShortWrite
errInvalidWrite == "errInvalidWrite"

VARIABLES
    done,      \* pipe.done is closed
    once,      \* pipe.once has run
    nclose,    \* number of times close(p.done) was executed
    rerr,      \* pipe.rerr.err
    werr,      \* pipe.werr.err
    firstArg,  \* per pipe end: the argument of the first close of that end
    cret,      \* last value returned by a Close / CloseWithError of the pipe
    wrMu,      \* holder of pipe.wrMu, or "none"
    pc,        \* position of every thread
    ctx,       \* signal of the call of every caller: Live or its Err()
    rlen,      \* len(b) of the read in progress
    rbw,       \* bw, the slice a read received from wrCh
    wlen,      \* len(b) the write in progress was called with
    wb,        \* b, the unconsumed suffix of the write in progress
    wn,        \* n of the write in progress
    own,       \* first value loaded by readCloseError / writeCloseError
    ret,       \* the last return of a ReadContext / WriteContext: the
               \* caller t, (n, err), the length len of the buffer it was
               \* called with, for a read the bytes data = b[:n], for a
               \* write the number taken of its bytes that reads copied,
               \* and prev, the closed-state error t was returned before
    lastClosed,\* per caller: the last closed-state error returned to it
    ncalls,    \* per caller: ReadContext / WriteContext calls made so far
    wpos,      \* per writer: sum of the counts its writes returned
    taken,     \* per writer: bytes of its current write copied by reads
    rcount,    \* per writer: bytes of its stream delivered to reads
    wcancel,   \* some write was interrupted by its signal
    aclosed,   \* per adapter: its closed channel is closed
    aonce,     \* per adapter: its closeOnce has run
    anclose,   \* per adapter: number of times close(closed) was executed
    aret,      \* per adapter: last value returned by its Close
    acalls,    \* per adapter: Close calls made (2 stands for two or more)
    wtSig,     \* deadline-racing adapter, per call: "none" before the call,
               \* then the state of its signal
    wtN,       \* calls made so far on the adapter
    wtPc,      \* per caller: position in ReadContext / WriteContext
    wtCur,     \* per caller: number of its call in progress
    wtPre,     \* per caller: its call was made with a signal already done
    wtLate,    \* per caller: its call was made after Close
    wtRes,     \* per caller: n, err of its native call and the call whose
               \* recorded reason replaced err (0: none)
    wtChan,    \* the watcher channel's one slot: a call's signal, or 0
    wtW,       \* position of the watcher goroutine
    wtWctx,    \* the call whose signal the watcher holds
    wtErr,     \* r.err: 0 for nil, else the call whose reason is recorded
    wtDeadline \* 0: the handle's deadline is not set; else the call for
               \* whose signal it was forced into the past

VARIABLES
    grMu,      \* goReader.mu: the caller that holds it, or "none"
    grPc,      \* per caller: position in goReader.ReadContext
    grLen,     \* per caller: len(data) of its call
    grCtx,     \* per caller: the signal of its call
    grPre,     \* per caller: the signal was done when the call was made
    grBuf,     \* r.buf: the array it points into, 0 for nil
    grStart,   \* r.start
    grEnd,     \* r.end
    grOut,     \* the bytes ReadContext calls have returned, in order
    grAband,   \* a call has returned its signal's reason after its request
               \* was taken by the worker
    gwPc,      \* position of the worker goroutine (loop)
    gwReq,     \* req.n of the request the worker handles
    gwRes,     \* n, err of the result the worker offers
    gwBuf1,    \* loop's buf1: the array it points into
    gwBuf2,    \* loop's buf2
    heap,      \* the contents of each array, length = capacity
    gwPos      \* bytes of the stream the handle has produced

VARIABLES
    gtMu,      \* goWriter.mu: the caller that holds it, or "none"
    gtPc,      \* per caller: position in goWriter.WriteContext
    gtLen,     \* per caller: len(data) of its call
    gtCtx,     \* per caller: the signal of its call
    gtCh,      \* per caller: the response channel ch of its request, one
               \* slot: NoResp or the response in it
    gtN,       \* n of WriteContext: the bytes of data counted so far
    gtM,       \* n of writeContext: the bytes copied into buf
    gtBuf1,    \* w.buf1: the scratch array it points into; w.buf2 points
               \* into the other one
    gtScr,     \* the chunk each scratch array holds
    gtRet,     \* what the last WriteContext returned
    guPc,      \* position of the worker goroutine (loop)
    guFor,     \* the caller still waiting on req.ch of the request the
               \* worker handles, or "none"
    guBuf,     \* the array req.data points into, 0 without a request
    guLen,     \* len(req.data)
    guRes      \* res of loop, what Write returned

VARIABLES
    cpPc,      \* position in copyBuffer
    cpNr,      \* nr of copyBuffer
    cpEr,      \* er of copyBuffer
    cpWritten, \* written of copyBuffer
    cpErr,     \* err of copyBuffer
    cpSunk,    \* the bytes the sink has reported as taken
    cpReads,   \* the reads copyBuffer has made
    raPc,      \* position in ReadAtLeast
    raLen,     \* len(buf) of ReadAtLeast
    raMin,     \* min of ReadAtLeast
    raM,       \* the bytes the source held when ReadAtLeast was called
    raRem,     \* the bytes the source still holds
    raN,       \* n of ReadAtLeast
    raErr,     \* err of ReadAtLeast
    raFull     \* the call was made through ReadFull

cellVars == << rerr, werr, firstArg >>
doneVars == << done, once, nclose, cret >>
closeVars == << cellVars, doneVars >>
rdVars == << rlen, rbw >>
wrVars == << wlen, wb, wn >>
retVars == << ret, lastClosed >>
histVars == << ncalls, wpos, taken, rcount, wcancel >>
wtVars == << wtSig, wtN, wtPc, wtCur, wtPre, wtLate, wtRes, wtChan, wtW,
            wtWctx, wtErr, wtDeadline >>
grVars == << grMu, grPc, grLen, grCtx, grPre, grBuf, grStart, grEnd, grOut,
             grAband >>
gwVars == << gwPc, gwReq, gwRes, gwBuf1, gwBuf2, heap, gwPos >>
guVars == << guPc, guFor, guBuf, guLen, guRes >>
gtVars == << gtMu, gtPc, gtLen, gtCtx, gtCh, gtN, gtM, gtBuf1, gtScr, gtRet,
            guVars >>
cpVars == << cpPc, cpNr, cpEr, cpWritten, cpErr, cpSunk, cpReads >>
raVars == << raPc, raLen, raMin, raM, raRem, raN, raErr, raFull >>
fnVars == << cpVars, raVars >>
goVars == << grVars, gwVars, gtVars, fnVars >>
adVars == << aclosed, aonce, anclose, aret, acalls, wtVars, goVars >>

vars == << closeVars, wrMu, pc, ctx, rdVars, wrVars, own, retVars, histVars,
           adVars >>

\* ---------------------------------------------------------------- helpers
Min(a, b) == IF a < b THEN a ELSE b

\* the sum of f over S
RECURSIVE SumOver(_, _)
SumOver(f, S) ==
    IF S = {} THEN 0
    ELSE LET x == CHOOSE y \in S : TRUE IN f[x] + SumOver(f, S \ {x})

\* The k-th byte thread w ever writes.  A caller continues its stream after
\* the count its last write reported.
Byte(w, k) == << w, k >>
Data(w, from, len) == [i \in 1..len |-> Byte(w, from + i)]

\* copy(dst, src) returns min(len(dst), len(src))
CopyAll(dstLen, src) == Len(src)
Copy(dstLen, src) == Min(dstLen, Len(src))

\* b[k:]
DropNone(s, k) == s
DropAll(s, k) == << >>
Drop(s, k) == SubSeq(s, k + 1, Len(s))

\* onceError.Store
StoreLast(cell, err) == err
Store(cell, err) == IF cell # Nil THEN cell ELSE err

\* closeRead / closeWrite replace a nil argument by a sentinel
ReadEndErr(err) == IF err = Nil THEN ErrClosedPipe ELSE err
WriteEndErrNoEOF(err) == IF err = Nil THEN ErrClosedPipe ELSE err
WriteEndErr(err) == IF err = Nil THEN EOF ELSE err

\* readCloseError, given the two loaded cells
ReadCloseErrorOwn(r, w) == IF r # Nil THEN r ELSE IF w # Nil THEN w ELSE ErrClosedPipe
ReadCloseError(r, w) == IF r = Nil /\ w # Nil THEN w ELSE ErrClosedPipe

\* writeCloseError, given the two loaded cells
WriteCloseErrorGeneric(w, r) == ErrClosedPipe
WriteCloseError(w, r) == IF w = Nil /\ r # Nil THEN r ELSE ErrClosedPipe

\* sync.Once.Do: does f run?
OnceRunsAlways(o) == TRUE
OnceRuns(o) == ~o

\* watchReader.Close: select { case <-r.closed: default: close(r.closed) }
\* does the default case run?
DefaultRuns(closed) == ~closed

\* ---------------------------------------------------------------- init
Init ==
    /\ done = FALSE
    /\ once = FALSE
    /\ nclose = 0
    /\ rerr = Nil
    /\ werr = Nil
    /\ firstArg = [e \in {"r", "w"} |-> "none"]
    /\ cret = "none"
    /\ wrMu = "none"
    /\ pc = [t \in Threads |-> "idle"]
    /\ ctx = [t \in Callers |-> Live]
    /\ rlen = [t \in PipeReaders |-> 0]
    /\ rbw = [t \in PipeReaders |-> << >>]
    /\ wlen = [t \in PipeWriters |-> 0]
    /\ wb = [t \in PipeWriters |-> << >>]
    /\ wn = [t \in PipeWriters |-> 0]
    /\ own = [t \in Callers |-> Nil]
    /\ ret = NoRet
    /\ lastClosed = [t \in Callers |-> "none"]
    /\ ncalls = [t \in Callers |-> 0]
    /\ wpos = [t \in PipeWriters |-> 0]
    /\ taken = [t \in PipeWriters |-> 0]
    /\ rcount = [t \in PipeWriters |-> 0]
    /\ wcancel = FALSE
    /\ aclosed = [a \in Adapters |-> FALSE]
    /\ aonce = [a \in Adapters |-> FALSE]
    /\ anclose = [a \in Adapters |-> 0]
    /\ aret = [a \in Adapters |-> "none"]
    /\ acalls = [a \in Adapters |-> 0]
    /\ wtSig = [k \in WatchCalls |-> "none"]
    /\ wtN = 0
    /\ wtPc = [t \in AdCallers |-> "idle"]
    /\ wtCur = [t \in AdCallers |-> 0]
    /\ wtPre = [t \in AdCallers |-> FALSE]
    /\ wtLate = [t \in AdCallers |-> FALSE]
    /\ wtRes = [t \in AdCallers |-> [n |-> 0, err |-> Nil, of |-> 0, dl |-> 0]]
    /\ wtChan = 0
    /\ wtW = "wait"
    /\ wtWctx = 0
    /\ wtErr = 0
    /\ wtDeadline = 0
    /\ grMu = "none"
    /\ grPc = [t \in AdCallers |-> "idle"]
    /\ grLen = [t \in AdCallers |-> 0]
    /\ grCtx = [t \in AdCallers |-> "none"]
    /\ grPre = [t \in AdCallers |-> FALSE]
    /\ grBuf = 0
    /\ grStart = 0
    /\ grEnd = 0
    /\ grOut = << >>
    /\ grAband = FALSE
    /\ gwPc = "recv"
    /\ gwReq = 0
    /\ gwRes = [n |-> 0, err |-> Nil]
    /\ gwBuf1 = 1
    /\ gwBuf2 = 2
    /\ heap = [b \in BufIds |-> << >>]
    /\ gwPos = 0
    /\ gtMu = "none"
    /\ gtPc = [t \in AdCallers |-> "idle"]
    /\ gtLen = [t \in AdCallers |-> 0]
    /\ gtCtx = [t \in AdCallers |-> "none"]
    /\ gtCh = [t \in AdCallers |-> NoResp]
    /\ gtN = 0
    /\ gtM = 0
    /\ gtBuf1 = 1
    /\ gtScr = [b \in {1, 2} |-> [of |-> "none", off |-> 0, len |-> 0]]
    /\ gtRet = NoResp
    /\ guPc = "recv"
    /\ guFor = "none"
    /\ guBuf = 0
    /\ guLen = 0
    /\ guRes = NoResp
    /\ cpPc = "idle"
    /\ cpNr = 0
    /\ cpEr = Nil
    /\ cpWritten = 0
    /\ cpErr = Nil
    /\ cpSunk = 0
    /\ cpReads = 0
    /\ raPc = "idle"
    /\ raLen = 0
    /\ raMin = 0
    /\ raM = 0
    /\ raRem = 0
    /\ raN = 0
    /\ raErr = Nil
    /\ raFull = FALSE

\* ---------------------------------------------------------------- pipe.read
\* what every return of read without data does
ReadReturn(r, len, err) ==
    /\ ret' = [t |-> r, n |-> 0, err |-> err, data |-> << >>, len |-> len,
               taken |-> 0, prev |-> lastClosed[r]]
    /\ lastClosed' = IF err \in ClosedErrs
                     THEN [lastClosed EXCEPT ![r] = err] ELSE lastClosed
    /\ pc' = [pc EXCEPT ![r] = "idle"]
    /\ ctx' = [ctx EXCEPT ![r] = Live]
    /\ own' = [own EXCEPT ![r] = Nil]
    /\ rlen' = [rlen EXCEPT ![r] = 0]

\* ReadContext is called with a buffer of len bytes and signal c.
\* First select: is the pipe done?  then readCloseError begins with
\* rerr := p.rerr.Load().  Second select: has the signal fired already?
\* Otherwise the call enters the third select.
ReadContextCtxFirst(r, len, c) ==
    /\ pc[r] = "idle"
    /\ ncalls' = [ncalls EXCEPT ![r] = @ + 1]
    /\ IF c # Live
       THEN ReadReturn(r, len, c)
       ELSE IF done
       THEN /\ pc' = [pc EXCEPT ![r] = "rd_rce"]
            /\ own' = [own EXCEPT ![r] = rerr]
            /\ rlen' = [rlen EXCEPT ![r] = len]
            /\ UNCHANGED << ctx, retVars >>
       ELSE /\ pc' = [pc EXCEPT ![r] = "rd_select"]
            /\ rlen' = [rlen EXCEPT ![r] = len]
            /\ UNCHANGED << ctx, own, retVars >>
    /\ UNCHANGED << closeVars, wrMu, rbw, wrVars, wpos, taken, rcount, wcancel,
                    adVars >>

ReadContext(r, len, c) ==
    /\ pc[r] = "idle"
    /\ ncalls' = [ncalls EXCEPT ![r] = @ + 1]
    /\ IF done
       THEN /\ pc' = [pc EXCEPT ![r] = "rd_rce"]
            /\ own' = [own EXCEPT ![r] = rerr]
            /\ rlen' = [rlen EXCEPT ![r] = len]
            /\ UNCHANGED << ctx, retVars >>
       ELSE IF c # Live
       THEN ReadReturn(r, len, c)
       ELSE /\ pc' = [pc EXCEPT ![r] = "rd_select"]
            /\ rlen' = [rlen EXCEPT ![r] = len]
            /\ UNCHANGED << ctx, own, retVars >>
    /\ UNCHANGED << closeVars, wrMu, rbw, wrVars, wpos, taken, rcount, wcancel,
                    adVars >>

\* third select, case bw := <-p.wrCh, together with the writer's p.wrCh <- b
ReadRecv(r, w) ==
    /\ pc[r] = "rd_select"
    /\ pc[w] = "wr_select"
    /\ rbw' = [rbw EXCEPT ![r] = wb[w]]
    /\ pc' = [pc EXCEPT ![r] = "rd_copy", ![w] = "wr_recv"]
    /\ UNCHANGED << closeVars, wrMu, ctx, rlen, wrVars, own, retVars, histVars,
                    adVars >>

\* nr := copy(b, bw); p.rdCh <- nr; return nr, nil -- together with the
\* writer's nw := <-p.rdCh; b = b[nw:]; n += nw and its loop condition
\* once || len(b) > 0
ReadCopy(r, w) ==
    /\ pc[r] = "rd_copy"
    /\ pc[w] = "wr_recv"
    /\ LET nr == Copy(rlen[r], rbw[r])
           b1 == Drop(wb[w], nr)
       IN  /\ rcount' = [rcount EXCEPT ![w] = @ + nr]
           /\ taken' = [taken EXCEPT ![w] = @ + nr]
           /\ ret' = [t |-> r, n |-> nr, err |-> Nil,
                      data |-> SubSeq(rbw[r], 1, nr), len |-> rlen[r],
                      taken |-> 0, prev |-> lastClosed[r]]
           /\ wb' = [wb EXCEPT ![w] = b1]
           /\ wn' = [wn EXCEPT ![w] = @ + nr]
           /\ pc' = [pc EXCEPT ![r] = "idle",
                               ![w] = IF Len(b1) > 0 THEN "wr_select" ELSE "wr_ret"]
    /\ ctx' = [ctx EXCEPT ![r] = Live]
    /\ rbw' = [rbw EXCEPT ![r] = << >>]
    /\ rlen' = [rlen EXCEPT ![r] = 0]
    /\ UNCHANGED << closeVars, wrMu, wlen, own, lastClosed, ncalls, wpos,
                    wcancel, adVars >>

\* third select, case <-ctx.Done()
ReadCtxDoneTakes(r) ==
    /\ pc[r] = "rd_select"
    /\ ctx[r] # Live
    /\ ReadReturn(r, rlen[r], ctx[r])
    /\ wb' = [w \in PipeWriters |-> IF pc[w] = "wr_select" THEN << >> ELSE wb[w]]
    /\ UNCHANGED << closeVars, wrMu, rbw, wlen, wn, histVars, adVars >>

ReadCtxDone(r) ==
    /\ pc[r] = "rd_select"
    /\ ctx[r] # Live
    /\ ReadReturn(r, rlen[r], ctx[r])
    /\ UNCHANGED << closeVars, wrMu, rbw, wrVars, histVars, adVars >>

\* third select, case <-p.done; readCloseError begins: rerr := p.rerr.Load()
ReadDone(r) ==
    /\ pc[r] = "rd_select"
    /\ done
    /\ own' = [own EXCEPT ![r] = rerr]
    /\ pc' = [pc EXCEPT ![r] = "rd_rce"]
    /\ UNCHANGED << closeVars, wrMu, ctx, rdVars, wrVars, retVars, histVars,
                    adVars >>

\* readCloseError: werr := p.werr.Load() and the result; read returns 0, it
ReadCloseReturn(r) ==
    /\ pc[r] = "rd_rce"
    /\ ReadReturn(r, rlen[r], ReadCloseError(own[r], werr))
    /\ UNCHANGED << closeVars, wrMu, rbw, wrVars, histVars, adVars >>

\* ---------------------------------------------------------------- pipe.write
\* WriteContext is called with the next len bytes of the caller's stream.
\* First select: is the pipe done?  then writeCloseError begins with
\* werr := p.werr.Load().  Otherwise the call goes on to p.wrMu.Lock().
WriteContext(w, len, c) ==
    /\ pc[w] = "idle"
    /\ ncalls' = [ncalls EXCEPT ![w] = @ + 1]
    /\ wlen' = [wlen EXCEPT ![w] = len]
    /\ wb' = [wb EXCEPT ![w] = Data(w, wpos[w], len)]
    /\ wn' = [wn EXCEPT ![w] = 0]
    /\ taken' = [taken EXCEPT ![w] = 0]
    /\ IF done
       THEN /\ pc' = [pc EXCEPT ![w] = "wr_wce"]
            /\ own' = [own EXCEPT ![w] = werr]
            /\ ctx' = ctx
       ELSE /\ pc' = [pc EXCEPT ![w] = "wr_lock"]
            /\ ctx' = [ctx EXCEPT ![w] = c]
            /\ own' = own
    /\ UNCHANGED << closeVars, wrMu, rdVars, retVars, wpos, rcount, wcancel,
                    adVars >>

\* what every return of write does: the deferred Unlock (when the lock was
\* taken) and the result
WriteReturn(w, n, err) ==
    /\ ret' = [t |-> w, n |-> n, err |-> err, data |-> << >>, len |-> wlen[w],
               taken |-> taken[w], prev |-> lastClosed[w]]
    /\ lastClosed' = IF err \in ClosedErrs
                     THEN [lastClosed EXCEPT ![w] = err] ELSE lastClosed
    /\ taken' = [taken EXCEPT ![w] = 0]
    /\ pc' = [pc EXCEPT ![w] = "idle"]
    /\ wrMu' = IF wrMu = w THEN "none" ELSE wrMu
    /\ wpos' = [wpos EXCEPT ![w] = @ + n]
    /\ wlen' = [wlen EXCEPT ![w] = 0]
    /\ wb' = [wb EXCEPT ![w] = << >>]
    /\ wn' = [wn EXCEPT ![w] = 0]
    /\ ctx' = [ctx EXCEPT ![w] = Live]
    /\ own' = [own EXCEPT ![w] = Nil]
    /\ UNCHANGED << closeVars, rdVars, ncalls, rcount, adVars >>

\* p.wrMu.Lock(), then the second select: has the signal fired already?
WriteLock(w) ==
    /\ pc[w] = "wr_lock"
    /\ wrMu = "none"
    /\ IF ctx[w] # Live
       THEN /\ WriteReturn(w, 0, ctx[w])
            /\ UNCHANGED wcancel
       ELSE /\ wrMu' = w
            /\ pc' = [pc EXCEPT ![w] = "wr_select"]
            /\ UNCHANGED << closeVars, ctx, rdVars, wrVars, own, retVars,
                            histVars, adVars >>

\* return n, nil after the loop
WriteLoopEnd(w) ==
    /\ pc[w] = "wr_ret"
    /\ WriteReturn(w, wn[w], Nil)
    /\ UNCHANGED wcancel

\* the count write returns when its signal fires inside the loop
CtxDoneCount(n) == 0

\* loop select, case <-ctx.Done()
WriteCtxDone(w) ==
    /\ pc[w] = "wr_select"
    /\ ctx[w] # Live
    /\ WriteReturn(w, CtxDoneCount(wn[w]), ctx[w])
    /\ wcancel' = TRUE

\* loop select, case <-p.done; writeCloseError begins: werr := p.werr.Load()
WriteDoneNever(w) == FALSE /\ UNCHANGED vars
WriteDone(w) ==
    /\ pc[w] = "wr_select"
    /\ done
    /\ own' = [own EXCEPT ![w] = werr]
    /\ pc' = [pc EXCEPT ![w] = "wr_wce"]
    /\ UNCHANGED << closeVars, wrMu, ctx, rdVars, wrVars, retVars, histVars,
                    adVars >>

\* writeCloseError: rerr := p.rerr.Load() and the result; write returns n, it
WriteCloseReturn(w) ==
    /\ pc[w] = "wr_wce"
    /\ WriteReturn(w, wn[w], WriteCloseError(own[w], rerr))
    /\ UNCHANGED wcancel

\* ---------------------------------------------------------------- close
\* closeRead / closeWrite up to and including the Store into the end's cell
CloseStore(c, end, err) ==
    /\ pc[c] = "idle"
    /\ IF end = "r"
       THEN /\ rerr' = Store(rerr, ReadEndErr(err))
            /\ werr' = werr
       ELSE /\ werr' = Store(werr, WriteEndErr(err))
            /\ rerr' = rerr
    /\ firstArg' = IF firstArg[end] = "none"
                   THEN [firstArg EXCEPT ![end] = err] ELSE firstArg
    /\ pc' = [pc EXCEPT ![c] = "cl_once"]
    /\ UNCHANGED << doneVars, wrMu, ctx, rdVars, wrVars, own, retVars,
                    histVars, adVars >>

\* p.once.Do(func() { close(p.done) }); return nil
CloseOnce(c) ==
    /\ pc[c] = "cl_once"
    /\ IF OnceRuns(once)
       THEN /\ once' = TRUE
            /\ done' = TRUE
            /\ nclose' = nclose + 1
       ELSE UNCHANGED << once, done, nclose >>
    /\ cret' = Nil
    /\ pc' = [pc EXCEPT ![c] = "idle"]
    /\ UNCHANGED << cellVars, wrMu, ctx, rdVars, wrVars, own, retVars,
                    histVars, adVars >>

\* watchReader.Close: under r.mu, close r.closed unless it is closed
\* already; return nil
WatchReaderClose(c) ==
    /\ pc[c] = "idle"
    /\ IF DefaultRuns(aclosed["watchReader"])
       THEN /\ aclosed' = [aclosed EXCEPT !["watchReader"] = TRUE]
            /\ anclose' = [anclose EXCEPT !["watchReader"] = @ + 1]
       ELSE UNCHANGED << aclosed, anclose >>
    /\ aret' = [aret EXCEPT !["watchReader"] = Nil]
    /\ acalls' = [acalls EXCEPT !["watchReader"] = Min(@ + 1, 2)]
    /\ UNCHANGED << closeVars, wrMu, pc, ctx, rdVars, wrVars, own, retVars,
                    histVars, aonce, wtVars, goVars >>

\* watchWriter.Close, goReader.Close, goWriter.Close:
\* closeOnce.Do(func() { close(closed) }); return nil
OnceClose(c, a) ==
    /\ pc[c] = "idle"
    /\ a # "watchReader"
    /\ IF OnceRuns(aonce[a])
       THEN /\ aonce' = [aonce EXCEPT ![a] = TRUE]
            /\ aclosed' = [aclosed EXCEPT ![a] = TRUE]
            /\ anclose' = [anclose EXCEPT ![a] = @ + 1]
       ELSE UNCHANGED << aonce, aclosed, anclose >>
    /\ aret' = [aret EXCEPT ![a] = Nil]
    /\ acalls' = [acalls EXCEPT ![a] = Min(@ + 1, 2)]
    /\ UNCHANGED << closeVars, wrMu, pc, ctx, rdVars, wrVars, own, retVars,
                    histVars, wtVars, goVars >>

\* ---------------------------------------------------------------- signals
\* The signal of a call in progress fires.  Only a call that is waiting (for
\* the lock or in a select) can still observe its signal.
CtxFire(t, e) ==
    /\ pc[t] \in {"rd_select", "wr_lock", "wr_select"}
    /\ ctx[t] = Live
    /\ ctx' = [ctx EXCEPT ![t] = e]
    /\ UNCHANGED << closeVars, wrMu, pc, rdVars, wrVars, own, retVars, histVars,
                    adVars >>

\* ---------------------------------------------------------------- specs
\* the steps of a call in progress
ReadProgress(r) ==
    \/ \E w \in PipeWriters : ReadRecv(r, w)
    \/ \E w \in PipeWriters : ReadCopy(r, w)
    \/ ReadCtxDone(r)
    \/ ReadDone(r)
    \/ ReadCloseReturn(r)

WriteProgress(w) ==
    \/ \E r \in PipeReaders : ReadRecv(r, w)
    \/ \E r \in PipeReaders : ReadCopy(r, w)
    \/ WriteLock(w)
    \/ WriteLoopEnd(w)
    \/ WriteCtxDone(w)
    \/ WriteDone(w)
    \/ WriteCloseReturn(w)

\* the steps of calls in progress and of the signals
Steps ==
    \/ \E r \in PipeReaders, w \in PipeWriters : ReadRecv(r, w)
    \/ \E r \in PipeReaders, w \in PipeWriters : ReadCopy(r, w)
    \/ \E r \in PipeReaders : ReadCtxDone(r)
    \/ \E r \in PipeReaders : ReadDone(r)
    \/ \E r \in PipeReaders : ReadCloseReturn(r)
    \/ \E w \in PipeWriters : WriteLock(w)
    \/ \E w \in PipeWriters : WriteLoopEnd(w)
    \/ \E w \in PipeWriters : WriteCtxDone(w)
    \/ \E w \in PipeWriters : WriteDone(w)
    \/ \E w \in PipeWriters : WriteCloseReturn(w)
    \/ \E c \in PipeClosers : CloseOnce(c)
    \/ \E t \in Callers, e \in CtxErrs : CtxFire(t, e)

\* A run of Spec: the reader and one writer make MaxCalls calls between
\* them, one after the other on each end, and a third goroutine closes the
\* ends any number of times.
ReadCall(r, len, c) ==
    /\ SumOver(ncalls, Callers) < MaxCalls
    /\ ReadContext(r, len, c)

WriteCall(w, len, c) ==
    /\ SumOver(ncalls, Callers) < MaxCalls
    /\ WriteContext(w, len, c)

Next ==
    \/ \E r \in PipeReaders, len \in 0..MaxLen, c \in Signals : ReadCall(r, len, c)
    \/ \E w \in SeqWriters, len \in 0..MaxLen, c \in Signals : WriteCall(w, len, c)
    \/ \E c \in PipeClosers, end \in {"r", "w"}, err \in CloseArgs : CloseStore(c, end, err)
    \/ Steps

\* the pipe with reads, writes, closes and signals
Spec == Init /\ [][Next]_vars

\* A run of FairSpec: the reader and both writers make one call each, so
\* that a write can wait for the lock another write holds, and one end is
\* closed once.
FirstReadCall(r, len, c) ==
    /\ ncalls[r] = 0
    /\ ReadContext(r, len, c)

FirstWriteCall(w, len, c) ==
    /\ ncalls[w] = 0
    /\ WriteContext(w, len, c)

FirstClose(c, end, err) ==
    /\ \A e \in {"r", "w"} : firstArg[e] = "none"
    /\ CloseStore(c, end, err)

QueueNext ==
    \/ \E r \in PipeReaders, len \in 0..MaxLen, c \in Signals : FirstReadCall(r, len, c)
    \/ \E w \in PipeWriters, len \in 0..MaxLen, c \in Signals : FirstWriteCall(w, len, c)
    \/ \E c \in PipeClosers, end \in {"r", "w"}, err \in CloseArgs : FirstClose(c, end, err)
    \/ Steps

\* a goroutine that can take a step of its call takes one
Fairness ==
    /\ \A r \in PipeReaders : WF_vars(ReadProgress(r))
    /\ \A w \in PipeWriters : WF_vars(WriteProgress(w))
    /\ \A c \in PipeClosers : WF_vars(CloseOnce(c))

FairSpec == Init /\ [][QueueNext]_vars /\ Fairness

\* Close calls only, on every kind of endpoint, by two goroutines
CloseNext ==
    \/ \E c \in Closers, end \in {"r", "w"}, err \in CloseArgs : CloseStore(c, end, err)
    \/ \E c \in Closers : CloseOnce(c)
    \/ \E c \in Closers : WatchReaderClose(c)
    \/ \E c \in Closers, a \in Adapters : OnceClose(c, a)

SpecClose == Init /\ [][CloseNext]_vars

\* ------------------------------------------- deadline-racing adapter
\* One instance, a watchReader or a watchWriter: the two differ in Close
\* only.  A caller performs the native Read / Write itself; the watcher
\* goroutine holds the signal of one call and can force the deadline.
pipeVars == << closeVars, wrMu, pc, ctx, rdVars, wrVars, own, retVars,
              histVars >>
clVars == << aclosed, aonce, anclose, aret, acalls >>

\* the instance's closed channel is closed
WatchClosed == aclosed["watchReader"] \/ aclosed["watchWriter"]

\* what the native Read / Write of a handle can return by itself
NativeResults == { [n |-> 1, err |-> Nil, of |-> 0, dl |-> 0],
                   [n |-> 0, err |-> EOF, of |-> 0, dl |-> 0] }

\* ReadContext / WriteContext begins: watchCancel's select on ctx.Done()
\* and, if the signal is not done, r.err = nil under r.mu.  The value
\* watchCancel returns is dropped, so the call goes on to the native call
\* in both cases.
WatchContext(t, c) ==
    /\ wtPc[t] = "idle"
    /\ wtN < MaxWatchCalls
    /\ wtN' = wtN + 1
    /\ wtSig' = [wtSig EXCEPT ![wtN + 1] = c]
    /\ wtCur' = [wtCur EXCEPT ![t] = wtN + 1]
    /\ wtPre' = [wtPre EXCEPT ![t] = (c # Live)]
    /\ wtLate' = [wtLate EXCEPT ![t] = WatchClosed]
    /\ IF c # Live
       THEN /\ wtPc' = [wtPc EXCEPT ![t] = "native"]
            /\ wtErr' = wtErr
       ELSE /\ wtPc' = [wtPc EXCEPT ![t] = "wc_send"]
            /\ wtErr' = 0
    /\ UNCHANGED << wtRes, wtChan, wtW, wtWctx, wtDeadline >>
    /\ UNCHANGED << pipeVars, clVars, goVars >>

\* watchCancel: r.watcher <- ctx, a channel with one slot
WatchSend(t) ==
    /\ wtPc[t] = "wc_send"
    /\ wtChan = 0
    /\ wtChan' = wtCur[t]
    /\ wtPc' = [wtPc EXCEPT ![t] = "native"]
    /\ UNCHANGED << wtSig, wtN, wtCur, wtPre, wtLate, wtRes, wtW, wtWctx,
                    wtErr, wtDeadline >>
    /\ UNCHANGED << pipeVars, clVars, goVars >>

\* the native call returns res; only a failed call looks at r.err
NativeDone(t, res) ==
    /\ wtRes' = [wtRes EXCEPT ![t] = res]
    /\ wtPc' = [wtPc EXCEPT ![t] = IF res.err = Nil THEN "finish" ELSE "check"]
    /\ UNCHANGED << wtSig, wtN, wtCur, wtPre, wtLate, wtChan, wtW, wtWctx,
                    wtErr, wtDeadline >>
    /\ UNCHANGED << pipeVars, clVars, goVars >>

\* n, err = r.r.Read(data): the handle has data, or fails by itself
NativeReturn(t, res) ==
    /\ wtPc[t] = "native"
    /\ NativeDone(t, res)

\* n, err = r.r.Read(data): the handle's deadline is in the past
NativeTimeout(t) ==
    /\ wtPc[t] = "native"
    /\ wtDeadline # 0
    /\ NativeDone(t, [n |-> 0, err |-> Timeout, of |-> 0, dl |-> wtDeadline])

\* canceled := r.canceled(); if canceled != nil { err = canceled }
WatchCanceled(t) ==
    /\ wtPc[t] = "check"
    /\ wtRes' = [wtRes EXCEPT ![t] =
                   IF wtErr # 0
                   THEN [@ EXCEPT !.err = wtSig[wtErr], !.of = wtErr]
                   ELSE @]
    /\ wtPc' = [wtPc EXCEPT ![t] = "finish"]
    /\ UNCHANGED << wtSig, wtN, wtCur, wtPre, wtLate, wtChan, wtW, wtWctx,
                    wtErr, wtDeadline >>
    /\ UNCHANGED << pipeVars, clVars, goVars >>

\* the call returns n, err after finish
WatchReturn(t) ==
    /\ wtPc' = [wtPc EXCEPT ![t] = "idle"]
    /\ wtCur' = [wtCur EXCEPT ![t] = 0]
    /\ wtPre' = [wtPre EXCEPT ![t] = FALSE]
    /\ wtLate' = [wtLate EXCEPT ![t] = FALSE]
    /\ wtRes' = [wtRes EXCEPT ![t] = [n |-> 0, err |-> Nil, of |-> 0, dl |-> 0]]
    /\ UNCHANGED << wtSig, wtN, wtChan, wtErr, wtDeadline >>
    /\ UNCHANGED << pipeVars, clVars, goVars >>

\* finish: case r.finished <- struct{}{}, received by the watcher in its
\* second select, which then loops
WatchFinishSend(t) ==
    /\ wtPc[t] = "finish"
    /\ wtW \in {"race", "racenil"}
    /\ wtW' = "wait"
    /\ wtWctx' = 0
    /\ WatchReturn(t)

\* finish: case <-r.closed
WatchFinishClosed(t) ==
    /\ wtPc[t] = "finish"
    /\ WatchClosed
    /\ UNCHANGED << wtW, wtWctx >>
    /\ WatchReturn(t)

\* watcher, first select: case ctx = <-watcher
WatcherRecv ==
    /\ wtW = "wait"
    /\ wtChan # 0
    /\ wtWctx' = wtChan
    /\ wtChan' = 0
    /\ wtW' = "race"
    /\ UNCHANGED << wtSig, wtN, wtPc, wtCur, wtPre, wtLate, wtRes, wtErr,
                    wtDeadline >>
    /\ UNCHANGED << pipeVars, clVars, goVars >>

\* watcher, second select: case <-done, then cancel's r.err = err
WatcherDone ==
    /\ wtW = "race"
    /\ wtSig[wtWctx] # Live
    /\ wtErr' = wtWctx
    /\ wtW' = "setdl"
    /\ UNCHANGED << wtSig, wtN, wtPc, wtCur, wtPre, wtLate, wtRes, wtChan,
                    wtWctx, wtDeadline >>
    /\ UNCHANGED << pipeVars, clVars, goVars >>

\* cancel's r.setter.SetReadDeadline(aLongTimeAgo); done = nil; goto START
WatcherSetDeadline ==
    /\ wtW = "setdl"
    /\ wtDeadline' = wtWctx
    /\ wtW' = "racenil"
    /\ UNCHANGED << wtSig, wtN, wtPc, wtCur, wtPre, wtLate, wtRes, wtChan,
                    wtWctx, wtErr >>
    /\ UNCHANGED << pipeVars, clVars, goVars >>

\* watcher, either select: case <-closed: return
WatcherExit ==
    /\ wtW \in {"wait", "race", "racenil"}
    /\ WatchClosed
    /\ wtW' = "exit"
    /\ wtWctx' = 0
    /\ UNCHANGED << wtSig, wtN, wtPc, wtCur, wtPre, wtLate, wtRes, wtChan,
                    wtErr, wtDeadline >>
    /\ UNCHANGED << pipeVars, clVars, goVars >>

\* The signal of call k fires.  It is observed only while the call is in
\* progress or the watcher or its channel holds the signal.
WatchFire(k) ==
    /\ wtSig[k] = Live
    /\ \/ \E t \in AdCallers : wtCur[t] = k
       \/ wtWctx = k /\ wtW = "race"
       \/ wtChan = k
    /\ wtSig' = [wtSig EXCEPT ![k] = "Canceled"]
    /\ UNCHANGED << wtN, wtPc, wtCur, wtPre, wtLate, wtRes, wtChan, wtW,
                    wtWctx, wtErr, wtDeadline >>
    /\ UNCHANGED << pipeVars, clVars, goVars >>

\* Close of the instance, which is of kind a, once
WatchClose(c, a) ==
    /\ \A b \in WatchKinds : acalls[b] = 0
    /\ IF a = "watchReader" THEN WatchReaderClose(c) ELSE OnceClose(c, a)

\* the steps of a deadline-racing adapter whose callers are T
WatchOf(T) ==
    \/ \E t \in T, c \in Signals : WatchContext(t, c)
    \/ \E t \in T : WatchSend(t)
    \/ \E t \in T, res \in NativeResults : NativeReturn(t, res)
    \/ \E t \in T : NativeTimeout(t)
    \/ \E t \in T : WatchCanceled(t)
    \/ \E t \in T : WatchFinishSend(t)
    \/ \E t \in T : WatchFinishClosed(t)
    \/ WatcherRecv
    \/ WatcherDone
    \/ WatcherSetDeadline
    \/ WatcherExit
    \/ \E k \in WatchCalls : WatchFire(k)
    \/ \E c \in PipeClosers, a \in WatchKinds : WatchClose(c, a)

WatchNext == WatchOf(AdCallers)

\* the deadline-racing adapter with two callers, signals and Close
SpecWatch == Init /\ [][WatchNext]_vars

\* The steps the Go scheduler takes once they can be taken: a caller's
\* steps that wait for nothing outside the adapter, the watcher's, and the
\* failure of a native call whose deadline is in the past.  The native call
\* returning by itself, a signal firing, a new call and Close are not.
WatchProgress ==
    \/ \E t \in AdCallers : WatchSend(t)
    \/ \E t \in AdCallers : NativeTimeout(t)
    \/ \E t \in AdCallers : WatchCanceled(t)
    \/ \E t \in AdCallers : WatchFinishSend(t)
    \/ \E t \in AdCallers : WatchFinishClosed(t)

WatcherProgress ==
    \/ WatcherRecv
    \/ WatcherDone
    \/ WatcherSetDeadline
    \/ WatcherExit

WatchFairness ==
    /\ \A t \in AdCallers :
         WF_vars(WatchSend(t) \/ NativeTimeout(t) \/ WatchCanceled(t)
                 \/ WatchFinishSend(t) \/ WatchFinishClosed(t))
    /\ WF_vars(WatcherProgress)

FairWatch == Init /\ [][WatchNext]_vars /\ WatchFairness

\* ------------------------------------------------- goroutine-proxy reader
\* The handle behind the goReader produces the bytes 1, 2, ... StreamLen and
\* then EOF.  Arrays are kept by identity, so that r.buf and the worker's
\* buf1 and buf2 can point into the same array.
pwVars == << pipeVars, wtVars, aonce, anclose, aret, acalls, fnVars >>

GoClosed == aclosed["goReader"]

\* r.start after a result of n bytes gave its first `end` bytes to data
RestStartDrop(end, n) == n
RestStart(end, n) == end

\* a ReadContext call returns, having copied bytes into data
GoReturn(t, bytes) ==
    /\ grOut' = grOut \o bytes
    /\ grPc' = [grPc EXCEPT ![t] = "idle"]
    /\ grLen' = [grLen EXCEPT ![t] = 0]
    /\ grCtx' = [grCtx EXCEPT ![t] = "none"]
    /\ grPre' = [grPre EXCEPT ![t] = FALSE]

\* ReadContext is called: len(data) == 0 returns 0, nil; else r.mu.Lock()
GoReadContext(t, len, c) ==
    /\ grPc[t] = "idle"
    /\ IF len = 0
       THEN UNCHANGED << grPc, grLen, grCtx, grPre >>
       ELSE /\ grPc' = [grPc EXCEPT ![t] = "lock"]
            /\ grLen' = [grLen EXCEPT ![t] = len]
            /\ grCtx' = [grCtx EXCEPT ![t] = c]
            /\ grPre' = [grPre EXCEPT ![t] = (c # Live)]
    /\ UNCHANGED << grOut, grAband >>
    /\ UNCHANGED << grMu, grBuf, grStart, grEnd, gwVars >>
    /\ UNCHANGED << pwVars, aclosed, gtVars >>

\* r.mu.Lock() succeeds; if r.start != r.end the call is served from r.buf
\* and returns, else it enters the select
GoReadLock(t) ==
    /\ grPc[t] = "lock"
    /\ grMu = "none"
    /\ IF grStart # grEnd
       THEN LET n == Min(grLen[t], grEnd - grStart) IN
            /\ GoReturn(t, SubSeq(heap[grBuf], grStart + 1, grStart + n))
            /\ grStart' = grStart + n
            /\ UNCHANGED grMu
       ELSE /\ grMu' = t
            /\ grPc' = [grPc EXCEPT ![t] = "sel1"]
            /\ UNCHANGED << grLen, grCtx, grPre, grOut, grStart >>
    /\ UNCHANGED << grBuf, grEnd, grAband, gwVars >>
    /\ UNCHANGED << pwVars, aclosed, gtVars >>

\* case r.req <- readRequest{n: len(data)}, received by the worker
GoReadSendReq(t) ==
    /\ grPc[t] = "sel1"
    /\ gwPc = "recv"
    /\ gwReq' = grLen[t]
    /\ gwPc' = "read"
    /\ grPc' = [grPc EXCEPT ![t] = "sel2"]
    /\ UNCHANGED << grMu, grLen, grCtx, grPre, grBuf, grStart, grEnd, grOut,
                    grAband >>
    /\ UNCHANGED << gwRes, gwBuf1, gwBuf2, heap, gwPos >>
    /\ UNCHANGED << pwVars, aclosed, gtVars >>

\* ReadContext and loop without buf1, buf2 = buf2, buf1 after the handoff
GoReadRecvResNoSwap(t) ==
    /\ grPc[t] \in {"sel1", "sel2"}
    /\ gwPc = "send"
    /\ LET end == Min(grLen[t], gwRes.n) IN
       /\ GoReturn(t, SubSeq(heap[gwBuf1], 1, end))
       /\ grStart' = RestStart(end, gwRes.n)
    /\ grEnd' = gwRes.n
    /\ grBuf' = gwBuf1
    /\ grMu' = "none"
    /\ gwPc' = "recv"
    /\ UNCHANGED << gwBuf1, gwBuf2, gwReq, gwRes, heap, gwPos, grAband >>
    /\ UNCHANGED << pwVars, aclosed, gtVars >>

\* case res = <-r.res, in either select, sent by the worker, which then swaps
\* buf1 and buf2; copy; r.start = end; r.end = res.n; r.buf = res.buf
GoReadRecvRes(t) ==
    /\ grPc[t] \in {"sel1", "sel2"}
    /\ gwPc = "send"
    /\ LET end == Min(grLen[t], gwRes.n) IN
       /\ GoReturn(t, SubSeq(heap[gwBuf1], 1, end))
       /\ grStart' = RestStart(end, gwRes.n)
    /\ grEnd' = gwRes.n
    /\ grBuf' = gwBuf1
    /\ grMu' = "none"
    /\ gwBuf1' = gwBuf2
    /\ gwBuf2' = gwBuf1
    /\ gwPc' = "recv"
    /\ UNCHANGED << gwReq, gwRes, heap, gwPos, grAband >>
    /\ UNCHANGED << pwVars, aclosed, gtVars >>

\* case <-r.closed, in either select: return 0, fs.ErrClosed
GoReadClosed(t) ==
    /\ grPc[t] \in {"sel1", "sel2"}
    /\ GoClosed
    /\ GoReturn(t, << >>)
    /\ grMu' = "none"
    /\ UNCHANGED << grBuf, grStart, grEnd, grAband, gwVars >>
    /\ UNCHANGED << pwVars, aclosed, gtVars >>

\* ReadContext with case <-ctx.Done() in the outer select only
GoReadCtxDoneOuter(t) ==
    /\ grPc[t] = "sel1"
    /\ grCtx[t] \in CtxErrs
    /\ GoReturn(t, << >>)
    /\ grMu' = "none"
    /\ UNCHANGED << grBuf, grStart, grEnd, grAband, gwVars >>
    /\ UNCHANGED << pwVars, aclosed, gtVars >>

\* case <-ctx.Done(), in either select: return 0, ctx.Err()
GoReadCtxDone(t) ==
    /\ grPc[t] \in {"sel1", "sel2"}
    /\ grCtx[t] \in CtxErrs
    /\ GoReturn(t, << >>)
    /\ grMu' = "none"
    /\ grAband' = (grAband \/ grPc[t] = "sel2")
    /\ UNCHANGED << grBuf, grStart, grEnd, gwVars >>
    /\ UNCHANGED << pwVars, aclosed, gtVars >>

\* the signal of a call in progress fires
GoFire(t, e) ==
    /\ grPc[t] # "idle"
    /\ grCtx[t] = Live
    /\ grCtx' = [grCtx EXCEPT ![t] = e]
    /\ UNCHANGED << grMu, grPc, grLen, grPre, grBuf, grStart, grEnd, grOut,
                    grAband, gwVars >>
    /\ UNCHANGED << pwVars, aclosed, gtVars >>

\* where loop is after r.r.Read has returned: at the select that sends the
\* response; a loop that calls Read again for the same request is at "read"
AfterReadAgain == "read"
AfterRead == "send"

\* loop: if cap(buf1) < req.n { buf1 = make([]byte, req.n) }, then
\* n, err := r.r.Read(buf1[:req.n]), which returns k bytes of the stream, or
\* 0, EOF at its end.  make returns an array nothing else points into; the
\* array buf1 pointed into is garbage unless r.buf points into it.
GoWorkerRead(k) ==
    /\ gwPc = "read"
    /\ LET grow == Len(heap[gwBuf1]) < gwReq
           b == IF grow THEN CHOOSE i \in BufIds : i \notin {gwBuf2, grBuf}
                        ELSE gwBuf1
           old == IF grow THEN [i \in 1..gwReq |-> 0] ELSE heap[gwBuf1]
           left == StreamLen - gwPos
       IN
       /\ IF left = 0 THEN k = 0 ELSE k \in 1..Min(gwReq, left)
       /\ gwBuf1' = b
       /\ heap' = [c \in BufIds |->
                     IF c = b
                     THEN [i \in 1..Len(old) |-> IF i <= k THEN gwPos + i ELSE old[i]]
                     ELSE IF c = gwBuf1 /\ c # grBuf THEN << >> ELSE heap[c]]
       /\ gwPos' = gwPos + k
       /\ gwRes' = [n |-> k, err |-> IF left = 0 THEN EOF ELSE Nil]
    /\ gwPc' = AfterRead
    /\ UNCHANGED << gwReq, gwBuf2, grVars >>
    /\ UNCHANGED << pwVars, aclosed, gtVars >>

\* loop with case <-r.closed in the first select only
GoWorkerExitRecvOnly ==
    /\ gwPc = "recv"
    /\ GoClosed
    /\ gwPc' = "exit"
    /\ UNCHANGED << gwReq, gwRes, gwBuf1, gwBuf2, heap, gwPos, grVars >>
    /\ UNCHANGED << pwVars, aclosed, gtVars >>

\* loop: case <-r.closed: return, in either select
GoWorkerExit ==
    /\ gwPc \in {"recv", "send"}
    /\ GoClosed
    /\ gwPc' = "exit"
    /\ UNCHANGED << gwReq, gwRes, gwBuf1, gwBuf2, heap, gwPos, grVars >>
    /\ UNCHANGED << pwVars, aclosed, gtVars >>

\* Close of the goReader, once
GoReaderClose(c) ==
    /\ acalls["goReader"] = 0
    /\ OnceClose(c, "goReader")

\* the steps of the callers T of a goReader and of its worker
GoReaderSteps(T) ==
    \/ \E t \in T, len \in 0..MaxLen, c \in Signals : GoReadContext(t, len, c)
    \/ \E t \in T : GoReadLock(t)
    \/ \E t \in T : GoReadSendReq(t)
    \/ \E t \in T : GoReadRecvRes(t)
    \/ \E t \in T : GoReadClosed(t)
    \/ \E t \in T : GoReadCtxDone(t)
    \/ \E t \in T, e \in CtxErrs : GoFire(t, e)
    \/ \E k \in 0..MaxLen : GoWorkerRead(k)
    \/ GoWorkerExit

\* the steps of a goReader whose callers are T
GoReaderOf(T) ==
    \/ GoReaderSteps(T)
    \/ \E c \in PipeClosers : GoReaderClose(c)

GoReaderNext == GoReaderOf(AdCallers)

\* the goroutine-proxy reader with two callers, signals and Close
SpecGoReader == Init /\ [][GoReaderNext]_vars

\* ------------------------------------------------- goroutine-proxy writer
\* Callers and the worker of a goWriter.  The two scratch arrays made by
\* newGoWriter are the arrays 1 and 2; an array holds the chunk last copied
\* into it, named by the call's caller, the chunk's offset in data and its
\* length.  The handle's Write takes the whole request or fails.
GoWClosed == aclosed["goWriter"]

NoChunk == [of |-> "none", off |-> 0, len |-> 0]

\* buf of writeContext: after the swap w.buf2 points into it
gtBuf == 3 - gtBuf1

\* what the handle's Write of len bytes can return
WriteResults(len) == { [n |-> len, err |-> Nil], [n |-> 0, err |-> Custom] }

\* a WriteContext call returns n, err: deferred w.mu.Unlock()
GoWriteReturn(t, n, err) ==
    /\ gtPc' = [gtPc EXCEPT ![t] = "idle"]
    /\ gtLen' = [gtLen EXCEPT ![t] = 0]
    /\ gtCtx' = [gtCtx EXCEPT ![t] = "none"]
    /\ gtCh' = [gtCh EXCEPT ![t] = NoResp]
    /\ gtMu' = "none"
    /\ gtN' = 0
    /\ gtM' = 0
    /\ gtRet' = [n |-> n, err |-> err]

\* writeContext(ctx, data[n:]) up to its first select: buf := w.buf1; swap;
\* ch := make(chan writeResponse, 1); n = copy(buf, data)
GoWriteChunk(t, n) ==
    LET m == Min(gtLen[t] - n, writeBufferSize) IN
    /\ gtN' = n
    /\ gtM' = m
    /\ gtBuf1' = 3 - gtBuf1
    /\ gtScr' = [gtScr EXCEPT ![gtBuf1] = [of |-> t, off |-> n, len |-> m]]
    /\ gtCh' = [gtCh EXCEPT ![t] = NoResp]
    /\ gtPc' = [gtPc EXCEPT ![t] = "sel1"]
    /\ gtMu' = t
    /\ UNCHANGED << gtLen, gtCtx, gtRet >>

\* WriteContext is called and waits for w.mu
GoWriteContext(t, len, c) ==
    /\ gtPc[t] = "idle"
    /\ gtPc' = [gtPc EXCEPT ![t] = "lock"]
    /\ gtLen' = [gtLen EXCEPT ![t] = len]
    /\ gtCtx' = [gtCtx EXCEPT ![t] = c]
    /\ UNCHANGED << gtMu, gtCh, gtN, gtM, gtBuf1, gtScr, gtRet, guVars >>
    /\ UNCHANGED << pwVars, aclosed, grVars, gwVars >>

\* w.mu.Lock(); for n < len(data): the first chunk, up to the first select
\* of writeContext
GoWriteLock(t) ==
    /\ gtPc[t] = "lock"
    /\ gtMu = "none"
    /\ IF gtLen[t] = 0
       THEN GoWriteReturn(t, 0, Nil) /\ UNCHANGED << gtBuf1, gtScr >>
       ELSE GoWriteChunk(t, 0)
    /\ UNCHANGED guVars
    /\ UNCHANGED << pwVars, aclosed, grVars, gwVars >>

\* case w.ch <- req, received by the worker
GoWriteSendReq(t) ==
    /\ gtPc[t] = "sel1"
    /\ guPc = "recv"
    /\ guPc' = "write"
    /\ guFor' = t
    /\ guBuf' = gtBuf
    /\ guLen' = gtM
    /\ gtPc' = [gtPc EXCEPT ![t] = "sel2"]
    /\ UNCHANGED << gtMu, gtLen, gtCtx, gtCh, gtN, gtM, gtBuf1, gtScr, gtRet,
                    guRes >>
    /\ UNCHANGED << pwVars, aclosed, grVars, gwVars >>

\* case res := <-ch: return res.n, res.err; in WriteContext n += m, return
\* on an error, else the next chunk if n < len(data), else return n, nil
GoWriteRecvRes(t) ==
    /\ gtPc[t] = "sel2"
    /\ gtCh[t] # NoResp
    /\ LET n == gtN + gtCh[t].n IN
       IF gtCh[t].err = Nil /\ n < gtLen[t]
       THEN GoWriteChunk(t, n)
       ELSE GoWriteReturn(t, n, gtCh[t].err) /\ UNCHANGED << gtBuf1, gtScr >>
    /\ UNCHANGED guVars
    /\ UNCHANGED << pwVars, aclosed, grVars, gwVars >>

\* case <-ctx.Done(), in either select: return n, ctx.Err(), n being the
\* number of bytes copied into buf; WriteContext adds it to its count; ch is
\* dropped
GoWriteCtxDone(t) ==
    /\ gtPc[t] \in {"sel1", "sel2"}
    /\ gtCtx[t] \in CtxErrs
    /\ GoWriteReturn(t, gtN + gtM, gtCtx[t])
    /\ guFor' = IF guFor = t THEN "none" ELSE guFor
    /\ UNCHANGED << gtBuf1, gtScr, guPc, guBuf, guLen, guRes >>
    /\ UNCHANGED << pwVars, aclosed, grVars, gwVars >>

\* the signal of a call in progress fires
GoWriteFire(t, e) ==
    /\ gtPc[t] # "idle"
    /\ gtCtx[t] = Live
    /\ gtCtx' = [gtCtx EXCEPT ![t] = e]
    /\ UNCHANGED << gtMu, gtPc, gtLen, gtCh, gtN, gtM, gtBuf1, gtScr, gtRet,
                    guVars >>
    /\ UNCHANGED << pwVars, aclosed, grVars, gwVars >>

\* loop: n, err := w.w.Write(req.data)
GoWorkerWrite(ok) ==
    /\ guPc = "write"
    /\ guPc' = "send"
    /\ \E res \in WriteResults(guLen) :
         /\ (res.err = Nil) = ok
         /\ guRes' = res
    /\ UNCHANGED << guFor, guBuf, guLen >>
    /\ UNCHANGED << gtMu, gtPc, gtLen, gtCtx, gtCh, gtN, gtM, gtBuf1, gtScr,
                    gtRet >>
    /\ UNCHANGED << pwVars, aclosed, grVars, gwVars >>

\* the response leaves the worker
GoWorkerSent ==
    /\ gtCh' = IF guFor = "none" THEN gtCh ELSE [gtCh EXCEPT ![guFor] = guRes]
    /\ guPc' = "recv"
    /\ guFor' = "none"
    /\ guBuf' = 0
    /\ guLen' = 0
    /\ guRes' = NoResp
    /\ UNCHANGED << gtMu, gtPc, gtLen, gtCtx, gtN, gtM, gtBuf1, gtScr, gtRet >>
    /\ UNCHANGED << pwVars, aclosed, grVars, gwVars >>

\* loop with req.ch made by make(chan writeResponse): the send waits for the
\* caller to receive
GoWorkerSendUnbuffered ==
    /\ guPc = "send"
    /\ guFor # "none"
    /\ GoWorkerSent

\* loop: req.ch <- res; ch has one slot, which the send needs empty
GoWorkerSend ==
    /\ guPc = "send"
    /\ guFor # "none" => gtCh[guFor] = NoResp
    /\ GoWorkerSent

\* loop: case <-w.closed: return
GoWriterExit ==
    /\ guPc = "recv"
    /\ GoWClosed
    /\ guPc' = "exit"
    /\ UNCHANGED << guFor, guBuf, guLen, guRes >>
    /\ UNCHANGED << gtMu, gtPc, gtLen, gtCtx, gtCh, gtN, gtM, gtBuf1, gtScr,
                    gtRet >>
    /\ UNCHANGED << pwVars, aclosed, grVars, gwVars >>

\* Close of the goWriter, once
GoWriterClose(c) ==
    /\ acalls["goWriter"] = 0
    /\ OnceClose(c, "goWriter")

\* the steps of a goWriter whose callers are T
GoWriterOf(T) ==
    \/ \E t \in T, len \in 0..MaxLen, c \in Signals : GoWriteContext(t, len, c)
    \/ \E t \in T : GoWriteLock(t)
    \/ \E t \in T : GoWriteSendReq(t)
    \/ \E t \in T : GoWriteRecvRes(t)
    \/ \E t \in T : GoWriteCtxDone(t)
    \/ \E t \in T, e \in CtxErrs : GoWriteFire(t, e)
    \/ \E ok \in BOOLEAN : GoWorkerWrite(ok)
    \/ GoWorkerSend
    \/ GoWriterExit
    \/ \E c \in PipeClosers : GoWriterClose(c)

GoWriterNext == GoWriterOf(AdCallers)

\* the goroutine-proxy writer with two callers, signals and Close
SpecGoWriter == Init /\ [][GoWriterNext]_vars

\* ------------------------------------------------------------ copyBuffer
\* Copy and CopyBuffer over a source without WriteToContext and a sink
\* without ReadFromContext.  The source and the sink return whatever a
\* Reader and a Writer can return, an impossible count of the sink included.
ReadErrs == {Nil, EOF, Custom}
WriteErrs == {Nil, Custom}

\* Copy / CopyBuffer is called: copyBuffer enters its loop
CopyCall ==
    /\ cpPc = "idle"
    /\ cpPc' = "read"
    /\ UNCHANGED << cpNr, cpEr, cpWritten, cpErr, cpSunk, cpReads >>
    /\ UNCHANGED << pipeVars, clVars, wtVars, grVars, gwVars, gtVars, raVars >>

\* if er != nil { if er != io.EOF { err = er }; break }
CopyAfter(er) ==
    IF er # Nil
    THEN /\ cpErr' = (IF er # EOF THEN er ELSE Nil)
         /\ cpPc' = "done"
    ELSE /\ cpPc' = "read"
         /\ UNCHANGED cpErr

\* nr, er := src.ReadContext(ctx, buf); with nr == 0 the rest of the loop body
CopyRead(nr, er) ==
    /\ cpPc = "read"
    /\ cpReads < MaxCopyReads
    /\ nr > 0 \/ er # Nil
    /\ cpReads' = cpReads + 1
    /\ IF nr > 0
       THEN /\ cpPc' = "write"
            /\ cpNr' = nr
            /\ cpEr' = er
            /\ UNCHANGED cpErr
       ELSE /\ CopyAfter(er)
            /\ UNCHANGED << cpNr, cpEr >>
    /\ UNCHANGED << cpWritten, cpSunk >>
    /\ UNCHANGED << pipeVars, clVars, wtVars, grVars, gwVars, gtVars, raVars >>

\* nw, ew := dst.WriteContext(ctx, buf[0:nr]) and the rest of the loop body.
\* written += int64(nw) stands inside the branch of the impossible count,
\* after nw = 0.  The sink has taken nw bytes unless the count is impossible.
CopyWrite(nw, ew) ==
    /\ cpPc = "write"
    /\ LET invalid == nw < 0 \/ cpNr < nw
           nw2 == IF invalid THEN 0 ELSE nw
           ew2 == IF invalid /\ ew = Nil THEN errInvalidWrite ELSE ew
       IN
       /\ cpWritten' = (IF invalid THEN cpWritten + nw2 ELSE cpWritten)
       /\ cpSunk' = cpSunk + nw2
       /\ IF ew2 # Nil
          THEN cpErr' = ew2 /\ cpPc' = "done"
          ELSE IF cpNr # nw2
               THEN cpErr' = ErrShortWrite /\ cpPc' = "done"
               ELSE CopyAfter(cpEr)
    /\ cpNr' = 0
    /\ cpEr' = Nil
    /\ UNCHANGED cpReads
    /\ UNCHANGED << pipeVars, clVars, wtVars, grVars, gwVars, gtVars, raVars >>

CopyNext ==
    \/ CopyCall
    \/ \E nr \in 0..MaxLen, er \in ReadErrs : CopyRead(nr, er)
    \/ \E nw \in (0 - 1)..(MaxLen + 1), ew \in WriteErrs : CopyWrite(nw, ew)

\* one call of Copy
SpecCopy == Init /\ [][CopyNext]_vars

\* ----------------------------------------------------------- ReadAtLeast
\* ReadAtLeast and ReadFull over a source that holds raM bytes and then
\* yields EOF, and that may fail with another error at any read.

\* the error ReadAtLeast returns after its loop
FinalErrRaw(n, min, err) == IF n >= min THEN Nil ELSE err
FinalErr(n, min, err) ==
    IF n >= min THEN Nil
    ELSE IF n > 0 /\ err = EOF THEN ErrUnexpectedEOF
    ELSE err

\* the loop goes on, or ReadAtLeast returns n and the error
ReadAtLeastStep(n, min, err) ==
    /\ raN' = n
    /\ IF n < min /\ err = Nil
       THEN raPc' = "loop" /\ raErr' = Nil
       ELSE raPc' = "done" /\ raErr' = FinalErr(n, min, err)

\* ReadAtLeast up to its first read, with len(buf) = len on a source of m
\* bytes
ReadAtLeastEnter(len, min, m) ==
    /\ raPc = "idle"
    /\ raLen' = len
    /\ raMin' = min
    /\ raM' = m
    /\ raRem' = m
    /\ IF len < min
       THEN raPc' = "done" /\ raErr' = ErrShortBuffer /\ raN' = 0
       ELSE ReadAtLeastStep(0, min, Nil)
    /\ UNCHANGED << pipeVars, clVars, wtVars, grVars, gwVars, gtVars, cpVars >>

\* ReadAtLeast(ctx, r, buf, min) is called
ReadAtLeast(len, min, m) ==
    /\ ReadAtLeastEnter(len, min, m)
    /\ raFull' = FALSE

\* ReadFull(ctx, r, buf) is called: ReadAtLeast(ctx, r, buf, len(buf))
ReadFull(len, m) ==
    /\ ReadAtLeastEnter(len, len, m)
    /\ raFull' = TRUE

\* what r.ReadContext(ctx, buf[n:]) can return with room for `room` bytes
\* and rem bytes left in the source: some bytes, with EOF if they are the
\* last ones, or 0, EOF at the end; or another error, with or without bytes
SourceResults(room, rem) ==
    { [n |-> k, err |-> e] : k \in 0..Min(room, rem), e \in ReadErrs } \
    ( { [n |-> 0, err |-> Nil] }
      \cup { [n |-> k, err |-> EOF] : k \in 0..(rem - 1) } )

\* nn, err = r.ReadContext(ctx, buf[n:]); n += nn
ReadAtLeastRead(res) ==
    /\ raPc = "loop"
    /\ res \in SourceResults(raLen - raN, raRem)
    /\ raRem' = raRem - res.n
    /\ ReadAtLeastStep(raN + res.n, raMin, res.err)
    /\ UNCHANGED << raLen, raMin, raM, raFull >>
    /\ UNCHANGED << pipeVars, clVars, wtVars, grVars, gwVars, gtVars, cpVars >>

ReadAtLeastNext ==
    \/ \E len \in 0..MaxLen, min \in 0..(MaxLen + 1), m \in 0..StreamLen :
         ReadAtLeast(len, min, m)
    \/ \E len \in 0..MaxLen, m \in 0..StreamLen : ReadFull(len, m)
    \/ \E k \in 0..MaxLen, e \in ReadErrs : ReadAtLeastRead([n |-> k, err |-> e])

\* one call of ReadAtLeast or ReadFull
SpecReadAtLeast == Init /\ [][ReadAtLeastNext]_vars

\* ------------------------------------------------------- background tasks
\* One adapter instance of any of the three kinds, used by one caller, with
\* its background task under a fair scheduler.
TaskCallers == {"a1"}

WatchUsed == wtN > 0 \/ WatchClosed
GoReaderUsed ==
    \/ \E t \in AdCallers : grPc[t] # "idle"
    \/ gwPc # "recv" \/ gwPos > 0 \/ GoClosed
GoWriterUsed ==
    \/ \E t \in AdCallers : gtPc[t] # "idle"
    \/ guPc # "recv" \/ gtRet # NoResp \/ GoWClosed

TaskNext ==
    \/ ~GoReaderUsed /\ ~GoWriterUsed /\ WatchOf(TaskCallers)
    \/ ~WatchUsed /\ ~GoWriterUsed /\ GoReaderOf(TaskCallers)
    \/ ~WatchUsed /\ ~GoReaderUsed /\ GoWriterOf(TaskCallers)

\* A goroutine that can take a step takes one.  The handle's own Read and
\* Write, the signals, new calls and Close are not forced.
TaskFairness ==
    /\ WatchFairness
    /\ \A t \in AdCallers :
         /\ WF_vars(GoReadLock(t) \/ GoReadSendReq(t) \/ GoReadRecvRes(t)
                    \/ GoReadClosed(t) \/ GoReadCtxDone(t))
         /\ WF_vars(GoWriteLock(t) \/ GoWriteSendReq(t) \/ GoWriteRecvRes(t)
                    \/ GoWriteCtxDone(t))
    /\ WF_vars(GoWorkerExit \/ \E t \in AdCallers : GoReadSendReq(t) \/ GoReadRecvRes(t))
    /\ WF_vars(GoWriterExit \/ GoWorkerSend \/ \E t \in AdCallers : GoWriteSendReq(t))

FairTasks == Init /\ [][TaskNext]_vars /\ TaskFairness

\* ------------------------------------------------------ either proxy
\* One goroutine-proxy instance, a goReader or a goWriter, with two callers.
ProxyNext ==
    \/ ~GoWriterUsed /\ GoReaderNext
    \/ ~GoReaderUsed /\ GoWriterNext

SpecProxy == Init /\ [][ProxyNext]_vars

\* a goReader that is closed, if at all, while no call is in progress, so
\* that every call in progress on a closed goReader was made after Close
GoReaderCloseQuiet(c) ==
    /\ \A t \in AdCallers : grPc[t] = "idle"
    /\ GoReaderClose(c)

GoReaderQuietNext ==
    \/ GoReaderSteps(AdCallers)
    \/ \E c \in PipeClosers : GoReaderCloseQuiet(c)

SpecGoReaderQuiet == Init /\ [][GoReaderQuietNext]_vars

\* ---------------------------------------------------------------- claims
\* a call of t returns in this step
ReadReturns(r) ==
    /\ ret'.t = r
    /\ pc'[r] = "idle"
    /\ \/ pc[r] # "idle"
       \/ pc[r] = "idle" /\ ncalls'[r] # ncalls[r] /\ pc' = pc
WriteReturns(w) == pc[w] # "idle" /\ pc'[w] = "idle"

\* the value a pipe end hands to the other side when it was first closed
\* with argument a
Sentinel(end, a) == IF a # Nil THEN a ELSE IF end = "r" THEN ErrClosedPipe ELSE EOF

C2_Rendezvous ==
    [][ /\ \A w \in PipeWriters :
             WriteReturns(w) =>
                 /\ ret'.err = Nil => (ret'.n = wlen[w] /\ taken[w] = wlen[w])
                 /\ taken[w] = wlen[w] \/ ctx[w] # Live \/ done
        /\ \A r \in PipeReaders :
             (ReadReturns(r) /\ ret'.n > 0) =>
                 \E w \in PipeWriters :
                     /\ pc[w] = "wr_recv"
                     /\ ret'.n <= Len(wb[w])
                     /\ ret'.data = SubSeq(wb[w], 1, ret'.n)
      ]_vars

\* a write of 2 bytes returned (2, nil) and reads had copied 2 of its bytes
C2_Witness ==
    /\ ret.t \in PipeWriters /\ ret.err = Nil
    /\ ret.len = 2 /\ ret.n = 2 /\ ret.taken = 2

\* C3: a read that takes data from a pending write returns
\* min(len(dst), bytes of that write not yet consumed) and nil, and its
\* bytes are the head of that one write's unconsumed suffix.
C3_ReadCount ==
    [][ \A r \in PipeReaders :
          (ReadReturns(r) /\ ret'.err = Nil) =>
              \E w \in PipeWriters :
                  /\ pc[w] = "wr_recv"
                  /\ ret'.n = Min(ret'.len, Len(wb[w]))
                  /\ ret'.data = SubSeq(wb[w], 1, ret'.n)
                  /\ \A i \in 1..ret'.n : ret'.data[i][1] = w
      ]_vars

\* a read with a 2-byte buffer returned the 1 byte that was left of a write
C3_Witness ==
    /\ ret.t \in PipeReaders /\ ret.err = Nil
    /\ ret.len = 2 /\ ret.n = 1
    /\ ret.data = << Byte("w1", 2) >>

OwnFirst(o, r) == IF o # Nil THEN o ELSE IF r # Nil THEN r ELSE ErrClosedPipe

\* C6 as claimed: a call that finds the pipe done returns its side's own
\* recorded error if set, else the remote side's, else the closed-pipe error.
C6_Original ==
    [][ /\ \A r \in PipeReaders :
              (ReadReturns(r) /\ pc[r] = "rd_rce") => ret'.err = OwnFirst(own[r], werr)
        /\ \A w \in PipeWriters :
              (WriteReturns(w) /\ pc[w] = "wr_wce") => ret'.err = OwnFirst(own[w], rerr)
      ]_vars

\* C6 amended: a call that finds the pipe done returns the closed-pipe
\* error if its side's own error is set (whatever its value), else the
\* remote side's recorded error.
C6_ErrorPriority ==
    [][ /\ \A r \in PipeReaders :
              (ReadReturns(r) /\ pc[r] = "rd_rce") =>
                  ret'.err = (IF own[r] # Nil THEN ErrClosedPipe
                              ELSE Sentinel("w", firstArg["w"]))
        /\ \A w \in PipeWriters :
              (WriteReturns(w) /\ pc[w] = "wr_wce") =>
                  ret'.err = (IF own[w] # Nil THEN ErrClosedPipe
                              ELSE Sentinel("r", firstArg["r"]))
      ]_vars

\* the read end was closed with E1 and a read returned the closed-pipe error
C6_Witness ==
    /\ ret.t \in PipeReaders /\ ret.err = ErrClosedPipe
    /\ rerr = Custom /\ werr = Nil

C8_DoubleClose ==
    /\ [](/\ nclose <= 1
          /\ cret \in {"none", Nil}
          /\ \A a \in Adapters :
                /\ anclose[a] <= 1
                /\ aret[a] \in {"none", Nil}
                /\ acalls[a] > 0 => (aclosed[a] /\ anclose[a] = 1)
          /\ rerr = (IF firstArg["r"] = "none" THEN Nil
                     ELSE Sentinel("r", firstArg["r"]))
          /\ werr = (IF firstArg["w"] = "none" THEN Nil
                     ELSE Sentinel("w", firstArg["w"]))
          /\ cret = Nil => (done /\ nclose = 1))
    /\ [][ /\ rerr # Nil => rerr' = rerr
           /\ werr # Nil => werr' = werr
           /\ done => done'
           /\ \A a \in Adapters : aclosed[a] => aclosed'[a] ]_vars

\* the pipe is done, its read end holds E1 from its first close, a further
\* close of the pipe is past its Store, and every adapter was closed twice
C8_Witness ==
    /\ done /\ nclose = 1 /\ cret = Nil
    /\ rerr = Custom /\ firstArg["r"] = Custom
    /\ \E c \in Closers : pc[c] = "cl_once"
    /\ \A a \in Adapters : acalls[a] = 2 /\ anclose[a] = 1 /\ aret[a] = Nil

\* C9 as claimed: a write that returns an error returns with it the number
\* of its bytes handed off to reads.
C9_InterruptedCount ==
    (ret.t \in PipeWriters /\ ret.err # Nil) => ret.n = ret.taken

\* C10: once the pipe is done every call in progress returns, wherever it
\* is blocked; a call started on a done pipe goes straight to the closed
\* error with a count of zero, which it keeps; a call on the closed path
\* returns a closed-state error with its count (zero for a read), and
\* returning it transfers nothing.
C10_CloseUnblocks ==
    /\ \A t \in Callers : (done /\ pc[t] # "idle") ~> (pc[t] = "idle")
    /\ [](\A w \in PipeWriters : (pc[w] = "wr_wce" /\ wrMu # w) => wn[w] = 0)
    /\ [][ \A t \in Callers :
             /\ (pc[t] = "idle" /\ pc'[t] # "idle" /\ done) =>
                   /\ pc'[t] \in {"rd_rce", "wr_wce"}
                   /\ t \in PipeWriters => wn'[t] = 0
             /\ (pc[t] \in {"rd_rce", "wr_wce"} /\ pc'[t] = "idle") =>
                   /\ ret'.t = t
                   /\ ret'.err \in ClosedErrs
                   /\ ret'.n = (IF t \in PipeWriters THEN wn[t] ELSE 0)
                   /\ rcount' = rcount ]_vars

\* the pipe is done while one write holds the lock and another waits for it
C10_Witness ==
    /\ done
    /\ pc["w1"] = "wr_lock" /\ wrMu = "w2" /\ pc["w2"] = "wr_select"

\* what a write in progress holds: the lock, the position of every writer,
\* the unconsumed suffix, the consumed count and the delivered bytes
WriteFrame == << wrMu, [w \in PipeWriters |-> pc[w]], wlen, wb, wn, taken,
                rcount, wpos >>

\* C11: a read whose signal fires before it has taken a pending write's
\* data returns (0, reason), and the step changes nothing of any write: a
\* blocked write stays blocked in its select with the same unconsumed
\* suffix and consumed count, where a later read can take it.
C11_ReadCancelFrame ==
    [][ \A r \in PipeReaders :
          (ReadReturns(r) /\ ret'.err \in CtxErrs) =>
              /\ ret'.n = 0 /\ ret'.data = << >>
              /\ ctx[r] # Live => ret'.err = ctx[r]
              /\ WriteFrame' = WriteFrame
              /\ pc'[r] = "idle"
      ]_vars

\* a read took 1 byte of a 2-byte write, the next read was interrupted by
\* its signal, and the write is still in its select with 1 byte left
C11_Witness ==
    /\ ret.t \in PipeReaders /\ ret.err \in CtxErrs /\ ret.n = 0
    /\ pc["w1"] = "wr_select" /\ wb["w1"] = << Byte("w1", 2) >>
    /\ wn["w1"] = 1 /\ taken["w1"] = 1

\* C14: a ReadContext called with a signal that is done on a pipe that is
\* not done returns (0, reason) in that step and changes nothing of any
\* write, blocked or not; a WriteContext called so goes for the lock with
\* nothing handed off, and the write that takes the lock with its signal
\* done returns (0, reason), no byte of it consumed; on a done pipe either
\* call goes to the closed error whatever its signal, and a call that
\* returns at once or from the lock never found the pipe done at its start.
C14_DoneSignalAtCall ==
    [][ /\ \A r \in PipeReaders, len \in 0..MaxLen, c \in CtxErrs :
              ReadContext(r, len, c) =>
                  IF done
                  THEN pc'[r] = "rd_rce" /\ ret' = ret
                  ELSE /\ pc'[r] = "idle"
                       /\ ret'.t = r /\ ret'.n = 0 /\ ret'.err = c
                       /\ WriteFrame' = WriteFrame
        /\ \A w \in PipeWriters, len \in 0..MaxLen, c \in CtxErrs :
              WriteContext(w, len, c) =>
                  IF done
                  THEN pc'[w] = "wr_wce" /\ wn'[w] = 0 /\ ret' = ret
                  ELSE /\ pc'[w] = "wr_lock" /\ ctx'[w] = c
                       /\ wn'[w] = 0 /\ taken'[w] = 0
                       /\ rcount' = rcount
        /\ \A w \in PipeWriters :
              (pc[w] = "wr_lock" /\ ctx[w] # Live) =>
                  \/ pc'[w] = "wr_lock" /\ ctx'[w] = ctx[w]
                  \/ /\ pc'[w] = "idle"
                     /\ ret'.t = w /\ ret'.n = 0 /\ ret'.err = ctx[w]
                     /\ taken[w] = 0 /\ rcount' = rcount
        /\ \A r \in PipeReaders :
              (pc[r] = "idle" /\ ncalls'[r] # ncalls[r] /\ done) =>
                  pc'[r] = "rd_rce"
      ]_vars

\* a read called with a done signal returned (0, Canceled) while a write
\* stood in its select, ready to hand over 2 bytes
C14_Witness ==
    /\ ret.t \in PipeReaders /\ ret.err \in CtxErrs /\ ret.n = 0
    /\ ~done
    /\ pc["w1"] = "wr_select" /\ Len(wb["w1"]) = 2
    /\ ncalls["r1"] = 1

\* the result a call in progress is about to return, once it is in finish
WatchResult(t) == << wtRes[t].n, wtRes[t].err >>

\* C12 as claimed: a call on the deadline-racing adapter made with a signal
\* that is already done performs no Read / Write on the handle and returns
\* zero bytes with the signal's reason.
C12_DoneSignalNoIO ==
    \A t \in AdCallers :
        wtPre[t] => /\ wtPc[t] # "native"
                    /\ wtPc[t] = "finish" => WatchResult(t) = << 0, wtSig[wtCur[t]] >>

\* C15 as claimed: when the signal of a call fires while the call is in its
\* native Read / Write and the adapter is not closed, the call returns.
C15_CancelReturns ==
    \A t \in AdCallers :
        (wtPc[t] = "native" /\ ~wtPre[t] /\ wtSig[wtCur[t]] # Live)
            ~> (wtPc[t] = "idle" \/ WatchClosed)

\* C16 as claimed: a call whose native Read / Write failed because the
\* deadline was forced for its own signal returns that signal's reason, and
\* a native error is replaced only by a reason recorded for the same call.
C16_CancelPriority ==
    \A t \in AdCallers :
        wtPc[t] = "finish" =>
            /\ wtRes[t].dl = wtCur[t] => wtRes[t].err = wtSig[wtCur[t]]
            /\ wtRes[t].of # 0 => wtRes[t].of = wtCur[t]

\* C17 as claimed: at most one caller is in the native Read / Write of the
\* handle at a time, and the signal the watcher holds, or is about to
\* receive, is the signal of that call.
C17_Serialized ==
    /\ Cardinality({t \in AdCallers : wtPc[t] = "native"}) <= 1
    /\ \A t \in AdCallers :
         wtPc[t] = "native" => (wtWctx = wtCur[t] \/ wtChan = wtCur[t])

\* C18 as claimed: a call started after Close performs no native Read /
\* Write on the handle, and is never left waiting to hand its signal to a
\* watcher that has exited.
C18_NoCallAfterClose ==
    \A t \in AdCallers :
        wtLate[t] =>
            /\ wtPc[t] # "native"
            /\ ~(wtPc[t] = "wc_send" /\ wtChan # 0 /\ wtW = "exit")

\* C13 as claimed: a goReader.ReadContext call made with a signal that is
\* already done sends no request to the worker.
C13_DoneSignalNoRequest ==
    \A t \in AdCallers : grPre[t] => grPc[t] # "sel2"

\* bytes 1..n of the stream
Stream(n) == [i \in 1..n |-> i]

\* the bytes the worker has read that no call has returned yet: the unread
\* part of r.buf, then the result the worker offers
Unread ==
    (IF grBuf = 0 THEN << >> ELSE SubSeq(heap[grBuf], grStart + 1, grEnd))
        \o (IF gwPc = "send" THEN SubSeq(heap[gwBuf1], 1, gwRes.n) ELSE << >>)

\* C20: whatever calls were abandoned on their signal, the bytes the calls
\* of a goReader have returned are the first bytes of the handle's stream in
\* order, as they are without cancellation; and as long as the worker runs,
\* the bytes it has read and no call has returned are intact in r.buf and
\* in the result it offers, in stream order.
C20_CancelRetry ==
    /\ grOut = Stream(Len(grOut))
    /\ gwPc # "exit" => grOut \o Unread = Stream(gwPos)

C20_Witness ==
    /\ grAband
    /\ ~GoClosed
    /\ grOut = Stream(StreamLen)

InSelect(t) == grPc[t] \in {"sel1", "sel2"}

\* C21: a goReader.ReadContext whose signal has fired while it is in one of
\* its selects returns, whatever the worker does; a return from a select
\* that takes no result returns no bytes and leaves the worker, its result
\* and r.buf as they are; the worker's native Read ends only by returning,
\* and the result it offers leaves it only into a ReadContext or by the
\* worker's return on Close.
C21_PromptCancel ==
    /\ \A t \in TaskCallers :
         (InSelect(t) /\ grCtx[t] \in CtxErrs) ~> (grPc[t] = "idle")
    /\ [][ /\ \A t \in AdCallers :
                (InSelect(t) /\ grPc'[t] = "idle" /\ gwPc' = gwPc)
                    => /\ grOut' = grOut
                       /\ UNCHANGED << gwVars, grBuf, grStart, grEnd >>
           /\ (gwPc = "read" /\ gwPc' # "read") => gwPc' = "send"
           /\ (gwPc = "send" /\ gwPc' # "send") =>
                \/ gwPc' = "exit" /\ GoClosed
                \/ \E t \in AdCallers :
                     /\ InSelect(t) /\ grPc'[t] = "idle"
                     /\ grOut' = grOut \o SubSeq(heap[gwBuf1], 1, Min(grLen[t], gwRes.n))
         ]_vars

C21_Witness ==
    /\ grAband
    /\ ~GoClosed
    /\ gwPc = "read"
    /\ grMu = "none"

\* C22 as claimed, for a goReader closed while no call is in progress:
\* after Close no ReadContext returns bytes.
C22_NoBytesAfterClose ==
    [][ GoClosed => grOut' = grOut ]_vars


\* C26: surplus handling of the goReader.  The indices satisfy
\* 0 <= r.start <= r.end <= len(r.buf).  A result handed to a call gives the
\* call the bytes that fit and leaves the rest, in order, between r.start and
\* r.end of r.buf.  While unread bytes remain no call is in the select or
\* holds the mutex, so a call that asks for the lock gets it; such a call
\* returns the next unread bytes from r.buf, advances r.start by their number
\* and leaves the worker and its channels alone.
HasSurplus == grStart # grEnd

C26_Surplus ==
    /\ [](/\ 0 <= grStart /\ grStart <= grEnd
          /\ grEnd <= (IF grBuf = 0 THEN 0 ELSE Len(heap[grBuf])))
    /\ [](HasSurplus => /\ grMu = "none"
                        /\ \A t \in AdCallers : ~InSelect(t))
    /\ [][ \A t \in AdCallers :
             /\ (InSelect(t) /\ grPc'[t] = "idle" /\ gwPc' # gwPc) =>
                  LET end == Min(grLen[t], gwRes.n) IN
                  /\ grOut' = grOut \o SubSeq(heap[gwBuf1], 1, end)
                  /\ grEnd' <= gwReq
                  /\ SubSeq(heap'[grBuf'], grStart' + 1, grEnd')
                       = SubSeq(heap[gwBuf1], end + 1, gwRes.n)
             /\ (HasSurplus /\ grPc[t] = "lock" /\ grPc'[t] # "lock") =>
                  LET n == Min(grLen[t], grEnd - grStart) IN
                  /\ grPc'[t] = "idle"
                  /\ grOut' = grOut \o SubSeq(heap[grBuf], grStart + 1, grStart + n)
                  /\ grStart' = grStart + n
                  /\ UNCHANGED << gwVars, grBuf, grEnd, grMu >>
             /\ (HasSurplus /\ grPc[t] = "lock") => ENABLED GoReadLock(t)
         ]_vars

C26_Witness ==
    /\ 0 < grStart /\ grStart < grEnd
    /\ \E t \in AdCallers : grPc[t] = "lock"

\* C30: buffer ownership in the goReader.  While the worker is inside the
\* handle's Read or holds a result, its buf1 is another array than r.buf, and
\* r.start = r.end; buf1 and buf2 are different arrays once buf1 has been
\* allocated; the Read step leaves the array of r.buf as it is.  A
\* result that waits to be handed off stays as it is until it is handed off:
\* the worker leaves that wait only by handing the result to a caller, whose
\* r.buf becomes that array, or by returning after Close, and it enters Read
\* only from its wait for a request.
WorkerBusy == gwPc \in {"read", "send"}

C30_BufferOwnership ==
    /\ [](WorkerBusy => gwBuf1 # grBuf /\ ~HasSurplus)
    /\ [](Len(heap[gwBuf1]) > 0 => gwBuf1 # gwBuf2)
    /\ [][ /\ (gwPc = "read" /\ gwPc' # "read") =>
                /\ gwPc' = "send"
                /\ gwBuf1' # grBuf
                /\ grBuf # 0 => heap'[grBuf] = heap[grBuf]
           /\ (gwPc # "read" /\ gwPc' = "read") => gwPc = "recv"
           /\ (gwPc = "send" /\ gwPc' = "send") =>
                UNCHANGED << gwRes, gwBuf1, heap >>
           /\ (gwPc = "send" /\ gwPc' # "send") =>
                \/ gwPc' = "exit" /\ GoClosed
                \/ gwPc' = "recv" /\ grBuf' = gwBuf1 /\ gwBuf1' # grBuf'
         ]_vars

C30_Witness ==
    /\ gwPc = "send" /\ gwRes.n > 0
    /\ grBuf # 0 /\ Len(heap[grBuf]) >= gwReq
    /\ grAband

\* C23 as claimed, for the call that waits to send its chunk: once the
\* goWriter is closed and its worker has returned, a WriteContext waiting in
\* its first select returns with the closed error, unless its signal fires.
C23_CloseUnblocks ==
    \A t \in TaskCallers :
      (GoWClosed /\ guPc = "exit" /\ gtPc[t] = "sel1" /\ gtCtx[t] = Live)
          ~> \/ gtPc[t] = "idle" /\ gtRet.err = ErrClosed
             \/ gtCtx[t] \in CtxErrs

\* the bytes of its data a WriteContext call in a select has handed to the
\* worker: the chunks answered so far and, once the request has been sent,
\* the chunk of the request
InWSelect(t) == gtPc[t] \in {"sel1", "sel2"}
Handed(t) == gtN + (IF gtPc[t] = "sel2" THEN gtM ELSE 0)

\* C24 as claimed: a WriteContext that returns its signal's reason returns
\* as its count the number of bytes it has handed to the worker.
C24_CancelCount ==
    [][ \A t \in AdCallers :
          (InWSelect(t) /\ gtPc'[t] = "idle" /\ gtRet'.err \in CtxErrs)
              => gtRet'.n = Handed(t) ]_vars

\* C29 as claimed: writeContext never copies a chunk into the scratch array
\* of a request the worker has received and whose Write has not returned.
\* The copy goes into the array w.buf1 points into, in the step that swaps
\* w.buf1 and w.buf2.
C29_NoReuse ==
    [][ gtBuf1' # gtBuf1 => ~(guPc = "write" /\ guBuf = gtBuf1) ]_vars

\* C25: the goWriter after a cancellation.  A worker that has a result to
\* deliver can deliver it, whether or not the call still waits for it, and
\* does.  A request the worker receives is the next chunk of the call that
\* sent it: it starts at the number of bytes of the call answered so far, is
\* as long as what is left, writeBufferSize at most, and lies in the array
\* the call copied it into; when the handle's Write takes it for a call that
\* still waits, the array still holds it.  A call that returns while its
\* signal has not fired returns the bytes answered and the handle's error,
\* and with a nil error len(data).  Once the handle has taken the last chunk
\* of a waiting call, the call returns.
LastChunkTaken(t) ==
    /\ gtPc[t] = "sel2" /\ guFor = t /\ guPc = "send"
    /\ guRes.err = Nil /\ gtN + guRes.n = gtLen[t]

C25_UsableAfterCancel ==
    /\ [](guPc = "send" => ENABLED GoWorkerSend)
    /\ (guPc = "send") ~> (guPc = "recv")
    /\ \A t \in TaskCallers : LastChunkTaken(t) ~> (gtPc[t] = "idle")
    /\ [][ \A t \in TaskCallers :
             /\ (guPc = "recv" /\ guPc' = "write" /\ gtPc[t] = "sel1") =>
                  /\ guFor' = t /\ guBuf' = gtBuf /\ guLen' = gtM
                  /\ gtM = Min(gtLen[t] - gtN, writeBufferSize)
                  /\ gtScr[gtBuf] = [of |-> t, off |-> gtN, len |-> gtM]
             /\ (guPc = "write" /\ guPc' = "send" /\ guFor = t) =>
                  /\ gtScr[guBuf] = [of |-> t, off |-> gtN, len |-> guLen]
                  /\ guRes' \in WriteResults(guLen)
             /\ (InWSelect(t) /\ gtPc'[t] = "idle" /\ gtCtx[t] = Live) =>
                  /\ gtRet' = [n |-> gtN + gtCh[t].n, err |-> gtCh[t].err]
                  /\ gtRet'.err = Nil => gtRet'.n = gtLen[t]
         ]_vars

C25_Witness ==
    /\ gtRet.err \in CtxErrs
    /\ guPc = "send" /\ guFor = "none"
    /\ \E t \in TaskCallers : gtPc[t] = "sel1" /\ gtCtx[t] = Live /\ gtLen[t] > writeBufferSize

\* C27 as claimed: when copyBuffer returns, with or without an error, the
\* count it returns is the sum of the counts the sink reported as written.
C27_CopyCount ==
    cpPc = "done" => cpWritten = cpSunk

\* C28: what ReadAtLeast and ReadFull return.  With min > len(buf) they
\* return 0, io.ErrShortBuffer.  Else, for a source that held M bytes before
\* EOF and a minimum L: if no other error ends the call, it returns 0, EOF
\* for M = 0 < L, M bytes and io.ErrUnexpectedEOF for 0 < M < L, and at least
\* L bytes with a nil error for M >= L, whatever error came with the last
\* read; another error ends the call only before L bytes were read, and is
\* returned as it is with the number of bytes read until then.  n is the
\* number of bytes taken from the source, at most len(buf).
C28_ReadAtLeast ==
    (raPc = "done") =>
       /\ raN = raM - raRem /\ raN <= raLen
       /\ raFull => raMin = raLen
       /\ IF raLen < raMin
          THEN raN = 0 /\ raErr = ErrShortBuffer
          ELSE /\ raErr \in {Nil, EOF, ErrUnexpectedEOF, Custom}
               /\ (raErr = Nil) = (raN >= raMin)
               /\ raErr = Custom => raN < raMin
               /\ raErr # Custom =>
                    /\ (raM = 0 /\ raMin > 0) => (raN = 0 /\ raErr = EOF)
                    /\ (0 < raM /\ raM < raMin) =>
                         (raN = raM /\ raErr = ErrUnexpectedEOF)
                    /\ raM >= raMin => (raN >= raMin /\ raErr = Nil)

C28_Witness ==
    /\ raPc = "done" /\ raFull
    /\ raErr = ErrUnexpectedEOF /\ raN = raM /\ raN > 0

\* C31: the handle behind a goReader or a goWriter is used by the worker
\* only, once for each request.  The handle's Read yields bytes, and its
\* Write a result, only in a step of the worker that takes it from "read" or
\* "write" to the delivery of the response and that changes nothing of any
\* caller; the worker gets to "read" or "write" only from its wait for a
\* request, by receiving the request a caller in its first select sends, and
\* leaves it only by that one step.
CallerSends(pcs, pcs2) ==
    \E t \in AdCallers : pcs[t] = "sel1" /\ pcs2[t] = "sel2"

C31_HandleExclusive ==
    [][ /\ (gwPos' # gwPos \/ gwRes' # gwRes) =>
             (gwPc = "read" /\ gwPc' = "send" /\ UNCHANGED grVars)
        /\ (gwPc = "read" /\ gwPc' # "read") => gwPc' = "send"
        /\ (gwPc # "read" /\ gwPc' = "read") =>
             (gwPc = "recv" /\ CallerSends(grPc, grPc'))
        /\ (guRes' # guRes /\ guRes' # NoResp) =>
             /\ guPc = "write" /\ guPc' = "send"
             /\ UNCHANGED << gtMu, gtPc, gtLen, gtCtx, gtCh, gtN, gtM, gtBuf1,
                             gtScr, gtRet >>
        /\ (guPc = "write" /\ guPc' # "write") => guPc' = "send"
        /\ (guPc # "write" /\ guPc' = "write") =>
             (guPc = "recv" /\ CallerSends(gtPc, gtPc'))
      ]_vars

C31_Witness ==
    /\ gwPc = "read" /\ grAband
    /\ \E t, u \in AdCallers : grPc[t] = "sel1" /\ grPc[u] = "lock"

\* the deadline-racing adapter used by one caller: its calls follow one
\* another
WatchOneNext == WatchOf(TaskCallers)

SpecWatchOne == Init /\ [][WatchOneNext]_vars

\* C32 as claimed: a call on the deadline-racing adapter whose signal has not
\* fired does not return the handle's deadline error.
C32_NoDeadlineLeak ==
    \A t \in TaskCallers :
        (wtPc[t] = "finish" /\ wtSig[wtCur[t]] = Live)
            => wtRes[t].err # Timeout

\* C33 as claimed, for the write end of a Pipe: a write that waits for the
\* lock another write holds returns once its signal has fired.
C33_QueuedCancel ==
    \A w \in PipeWriters :
        (pc[w] = "wr_lock" /\ ctx[w] \in CtxErrs) ~> (pc[w] = "idle")

====
